---- MODULE Spec2Model ----
(***************************************************************************)
(* The diagnostic context stack of lingo (src/lingo/error.cpp).            *)
(*                                                                         *)
(* A Diagnostic_context is an object with a suppression flag, an error     *)
(* counter and (being a vector of diagnostics) a stored sequence.  Every   *)
(* constructor pushes the object's address on the file-static stack        *)
(* diags_, every destructor pops the top of that stack.  The free          *)
(* functions error, warning, error_count, emit_diagnostics and             *)
(* reset_diagnostics act on diags_.top().                                  *)
(*                                                                         *)
(* Contexts are identified by their address: 0 is the function-local       *)
(* static root_ of init_diagnostics, 1..MaxCalls are the addresses client  *)
(* code may construct contexts at (an address is reused after its object   *)
(* died).  std::stack::top() on an empty stack, and a call through a       *)
(* pointer to a destroyed context, are undefined behaviour: the model      *)
(* takes them as a choice between a crash, the call doing nothing that     *)
(* shows, and the call reading what the destroyed object left in memory.   *)
(* The run is bounded by the number of calls it makes.                     *)
(*                                                                         *)
(* The tokens of lingo (src/lingo/token.hpp) have a specification of their *)
(* own, TokenSpec: a Token_stream over a buffer of tokens with its cursor  *)
(* first_ and its end last_ as offsets, the conversion of a Token to bool, *)
(* and the token sets installed in the registry.                           *)
(***************************************************************************)
EXTENDS Integers, Sequences, FiniteSets, TLC

\* ------------------------------------------------------------- bounds
\* Calls a run makes (constructors, destructors, member and free functions).
MaxCalls == 6

\* the longest token buffer, and the number of token sets
MaxLen == 2
MaxSets == 3

\* ------------------------------------------------------------- values
root_ == 0
Clients == 1..MaxCalls
Ctxs == {root_} \cup Clients

error_diag == "error_diag"
warning_diag == "warning_diag"
note_diag == "note_diag"
Kinds == {error_diag, warning_diag, note_diag}
Locs == {"f:1"}
Msgs == {"m1"}

\* Token_kind: the kinds of token.hpp the model draws tokens from
error_tok == 0
lparen_tok == 1
identifier_tok == 50
hexadecimal_integer_tok == 55
TokKinds == {error_tok, lparen_tok, identifier_tok}
TokenSets == 1..MaxSets

\* No context: what Top is when the stack is empty.
NoCtx == root_ - 1

VARIABLES
  diags_,     \* the stack of context addresses, bottom first
  alive,      \* alive[c]: an object lives at address c
  suppress_,  \* suppress_[c]
  errs_,      \* errs_[c]
  elems,      \* elems[c]: the vector base of the context
  root_init,  \* the static root_ of init_diagnostics has been constructed
  cerr,       \* the reporting boundary: lines written so far
  status,     \* "running" or "crashed"
  calls,      \* calls made so far
  serial,     \* history: diagnostics constructed so far
  emitted,    \* history: diagnostics emitted into c since construction/reset
  cleared,    \* history: the diagnostics reset() removed from c
  replayed,   \* history: emit() ran on c since c's diagnostics last changed
  outer,      \* history: <<n>> while c lives, n the error counter of the top
              \* context just before c was constructed, that context untouched
              \* since; <<n, m>> once c was destroyed in order with counter m
  dropped,    \* history: tags of the diagnostics destroyed before they were sent
  order,      \* history: the living contexts, oldest first
  base,       \* history: diags_ just before c was constructed
  scope,      \* history: how destructions since c's construction were nested
  buf,        \* the tokens of the buffer a Token_stream reads
  first_,     \* Token_stream::first_, as an offset from the buffer's start
  last_,      \* Token_stream::last_, as an offset from the buffer's start
  tok,        \* the Token in hand: the last one constructed or returned
  conv,       \* history: the conversions to bool made, token and result
  deref,      \* history: <<i>>, the offset the last stream call read at
  tstatus,    \* "running" or "failed": a stream call asserted
  toks_,      \* the installed token sets
  flagged     \* an install_token_set call was reported as an error

diagVars == <<diags_, alive, suppress_, errs_, elems, root_init, cerr, status,
              calls, serial, emitted, cleared, replayed, outer, dropped,
              order, base, scope>>

tokVars == <<buf, first_, last_, tok, conv, deref, tstatus, toks_, flagged>>

vars == <<diagVars, tokVars>>

\* ------------------------------------------------------------- helpers
\* operator<<(std::ostream&, Diagnostic_kind)
KindName(k) ==
  CASE k = error_diag -> "error"
    [] k = warning_diag -> "warning"
    [] k = note_diag -> "note"

\* operator<<(std::ostream&, Diagnostic const&)
Format(d) == <<KindName(d.kind), ":", d.loc, ": ", d.msg>>

\* One line on std::cerr; tag tells which emit call constructed the diagnostic.
Line(d) == [text |-> Format(d), tag |-> d.tag]

RECURSIVE Lines(_)
Lines(s) == IF s = <<>> THEN <<>> ELSE <<Line(Head(s))>> \o Lines(Tail(s))

RECURSIVE CountErrors(_)
CountErrors(s) ==
  IF s = <<>> THEN 0
  ELSE (IF Head(s).kind = error_diag THEN 1 ELSE 0) + CountErrors(Tail(s))

Range(s) == {s[i] : i \in 1..Len(s)}
Tags(s) == {s[i].tag : i \in 1..Len(s)}
Last(s) == IF s = <<>> THEN NoCtx ELSE s[Len(s)]

RECURSIVE Without(_, _)
Without(s, c) ==
  IF s = <<>> THEN <<>>
  ELSE IF Head(s) = c THEN Without(Tail(s), c)
  ELSE <<Head(s)>> \o Without(Tail(s), c)
Sent == Tags(cerr)

\* std::stack: push, pop, top
Push(s, c) == Append(s, c)
PopTwice(s) == IF Len(s) >= 2 THEN SubSeq(s, 1, Len(s) - 2) ELSE <<>>
Pop(s) == SubSeq(s, 1, Len(s) - 1)
Bottom == IF diags_ = <<>> THEN NoCtx ELSE diags_[1]
Top == IF diags_ = <<>> THEN NoCtx ELSE diags_[Len(diags_)]

\* diags_.top() is a pointer to a living context
TopValid == diags_ # <<>> /\ alive[Top]

\* ------------------------------------------------------------- tokens
\* Token::Token(): an error token at the default location
DefaultToken == [kind |-> error_tok, loc |-> ""]

\* a Token of kind k the lexer made
TokenOf(k) == [kind |-> k, loc |-> "f:1"]

\* the buffers a stream is constructed over
Buffers == UNION {[1..n -> {TokenOf(k) : k \in TokKinds}] : n \in 0..MaxLen}

\* the kinds a token set resolves: two neighbours share one kind
Owned(ts) == {hexadecimal_integer_tok + ts, hexadecimal_integer_tok + ts + 1}

\* a program that makes no token: no stream constructed, nothing installed
NoTokens ==
  /\ buf = <<>>
  /\ first_ = Len(buf)
  /\ last_ = Len(buf)
  /\ tok = DefaultToken
  /\ conv = {}
  /\ deref = <<>>
  /\ tstatus = "running"
  /\ toks_ = {}
  /\ flagged = FALSE

\* ------------------------------------------------------------- Init
DiagInit ==
  /\ diags_ = <<>>
  /\ alive = [c \in Ctxs |-> FALSE]
  /\ suppress_ = [c \in Ctxs |-> FALSE]
  /\ errs_ = [c \in Ctxs |-> 0]
  /\ elems = [c \in Ctxs |-> <<>>]
  /\ root_init = FALSE
  /\ cerr = <<>>
  /\ status = "running"
  /\ calls = 0
  /\ serial = 0
  /\ emitted = [c \in Ctxs |-> <<>>]
  /\ cleared = [c \in Ctxs |-> {}]
  /\ replayed = [c \in Ctxs |-> FALSE]
  /\ outer = [c \in Ctxs |-> <<>>]
  /\ dropped = {}
  /\ order = <<>>
  /\ base = [c \in Ctxs |-> <<>>]
  /\ scope = [c \in Ctxs |-> "none"]

Init == DiagInit /\ NoTokens

\* A call can be made: the process runs and the run has calls left.
Call ==
  /\ status = "running"
  /\ calls < MaxCalls
  /\ calls' = calls + 1
  /\ UNCHANGED tokVars

\* ------------------------------------------------------------- members
\* Diagnostic_context::Diagnostic_context(bool suppress)
CtxConstruct(c, s) ==
  /\ alive' = [alive EXCEPT ![c] = TRUE]
  /\ suppress_' = [suppress_ EXCEPT ![c] = s]
  /\ errs_' = [errs_ EXCEPT ![c] = 0]
  /\ elems' = [elems EXCEPT ![c] = <<>>]
  /\ diags_' = Push(diags_, c)
  /\ emitted' = [emitted EXCEPT ![c] = <<>>]
  /\ cleared' = [cleared EXCEPT ![c] = {}]
  /\ replayed' = [replayed EXCEPT ![c] = FALSE]
  /\ outer' = [outer EXCEPT ![c] = IF TopValid THEN <<errs_[Top]>> ELSE <<>>]
  /\ order' = Append(order, c)
  /\ base' = [base EXCEPT ![c] = diags_]
  /\ scope' = [scope EXCEPT ![c] = "fresh"]

\* The history outer after a member call on c changed c's diagnostics: the
\* living contexts constructed right above c no longer have c untouched.
OuterTouched(c) ==
  [x \in Ctxs |->
     IF alive[x] /\ base[x] # <<>> /\ Last(base[x]) = c THEN <<>> ELSE outer[x]]

\* the error counter after emit(d)
CountAny(n, d) == n + 1
Count(n, d) == IF d.kind = error_diag THEN n + 1 ELSE n

\* the stored sequence after emit(d)
StoreAlways(sup, s, d) == Append(s, d)
Store(sup, s, d) == IF sup THEN Append(s, d) ELSE s

\* std::cerr after emit(d)
Show(sup, out, d) == IF sup THEN out ELSE Append(out, Line(d))

\* Diagnostic_context::emit(Diagnostic const&)
CtxEmit(c, d) ==
  /\ errs_' = [errs_ EXCEPT ![c] = Count(@, d)]
  /\ elems' = [elems EXCEPT ![c] = Store(suppress_[c], @, d)]
  /\ cerr' = Show(suppress_[c], cerr, d)
  /\ emitted' = [emitted EXCEPT ![c] = Append(@, d)]
  /\ replayed' = [replayed EXCEPT ![c] = FALSE]
  /\ outer' = OuterTouched(c)
  /\ serial' = serial + 1

\* Diagnostic_context::reset()
CtxResetKeepsCount(c) ==
  /\ elems' = [elems EXCEPT ![c] = <<>>]
  /\ errs_' = errs_
  /\ emitted' = [emitted EXCEPT ![c] = <<>>]
  /\ cleared' = [cleared EXCEPT ![c] = @ \cup Range(emitted[c])]
  /\ replayed' = [replayed EXCEPT ![c] = FALSE]
  /\ outer' = OuterTouched(c)
CtxReset(c) ==
  /\ elems' = [elems EXCEPT ![c] = <<>>]
  /\ errs_' = [errs_ EXCEPT ![c] = 0]
  /\ emitted' = [emitted EXCEPT ![c] = <<>>]
  /\ cleared' = [cleared EXCEPT ![c] = @ \cup Range(emitted[c])]
  /\ replayed' = [replayed EXCEPT ![c] = FALSE]
  /\ outer' = OuterTouched(c)

\* std::cerr after emit()
ReplayReversed(sup, out, s) ==
  IF sup THEN out \o [i \in 1..Len(s) |-> Line(s[Len(s) + 1 - i])] ELSE out
Replay(sup, out, s) == IF sup THEN out \o Lines(s) ELSE out

\* Diagnostic_context::emit()
CtxReplayFlushes(c) ==
  /\ cerr' = Replay(suppress_[c], cerr, elems[c])
  /\ elems' = [elems EXCEPT ![c] = <<>>]
  /\ errs_' = [errs_ EXCEPT ![c] = 0]
  /\ replayed' = [replayed EXCEPT ![c] = TRUE]
CtxReplay(c) ==
  /\ cerr' = Replay(suppress_[c], cerr, elems[c])
  /\ UNCHANGED <<elems, errs_>>
  /\ replayed' = [replayed EXCEPT ![c] = TRUE]

\* The diagnostic an emit call constructs.
Diag(k, l, m) == [kind |-> k, loc |-> l, msg |-> m, tag |-> serial + 1]

\* ------------------------------------------------------------- client calls
\* The address a new client context gets: the lowest free one.
FreeAddress == CHOOSE c \in Clients : ~alive[c] /\ \A x \in Clients : x < c => alive[x]

\* A client constructs a context.
Construct(s) ==
  /\ Call
  /\ CtxConstruct(FreeAddress, s)
  /\ UNCHANGED <<root_init, cerr, status, serial, dropped>>

\* The history of the contexts after c's destructor ran.  A destruction is in
\* order when it is of the youngest living context.
\*   "fresh"    alive, every destruction since its construction was in order
\*   "nested"   fresh, and a context constructed after it was destroyed
\*   "broken"   alive, some destruction since its construction was out of order
\*   "unwound"  destroyed in order when nested
\*   "none"     otherwise
ScopeAfter(c) ==
  [x \in Ctxs |->
     IF x = c
     THEN (IF Last(order) = c /\ scope[c] = "nested" THEN "unwound" ELSE "none")
     ELSE IF ~alive[x] THEN "none"
     ELSE IF Last(order) # c THEN "broken"
     ELSE IF scope[x] = "fresh" THEN "nested"
     ELSE scope[x]]

OuterAfter(c) ==
  [x \in Ctxs |->
     IF x = c
     THEN (IF Last(order) = c /\ scope[c] \in {"fresh", "nested"} /\ outer[c] # <<>>
           THEN <<outer[c][1], errs_[c]>> ELSE <<>>)
     ELSE IF alive[x] /\ ScopeAfter(c)[x] = "broken" THEN <<>>
     ELSE outer[x]]

BaseAfter(c) ==
  [x \in Ctxs |->
     IF x # c /\ ScopeAfter(c)[x] \in {"fresh", "nested"} THEN base[x] ELSE <<>>]

\* Diagnostic_context::~Diagnostic_context(), then the object's storage is gone
\* The destroyed contexts diags_ still points to once c's destructor ran: what
\* they left in memory can still be read through the stack.
Dangling(c) == {x \in Range(Pop(diags_)) : x = c \/ ~alive[x]}
Kept(c) == {x \in Ctxs : alive[x] /\ x # c} \cup Dangling(c)

DestroyPropagates(c) ==
  /\ Call
  /\ alive[c]
  /\ diags_' = Pop(diags_)
  /\ alive' = [alive EXCEPT ![c] = FALSE]
  /\ suppress_' = [x \in Ctxs |-> IF x \in Kept(c) THEN suppress_[x] ELSE FALSE]
  /\ errs_' = [x \in Ctxs |->
                IF x = c THEN 0
                ELSE IF Pop(diags_) # <<>> /\ x = Last(Pop(diags_))
                THEN errs_[x] + errs_[c]
                ELSE errs_[x]]
  /\ elems' = [x \in Ctxs |-> IF x \in Kept(c) THEN elems[x] ELSE <<>>]
  /\ emitted' = [emitted EXCEPT ![c] = <<>>]
  /\ cleared' = [cleared EXCEPT ![c] = {}]
  /\ replayed' = [replayed EXCEPT ![c] = FALSE]
  /\ outer' = OuterAfter(c)
  /\ dropped' = dropped \cup (Tags(elems[c]) \ Sent)
  /\ order' = Without(order, c)
  /\ base' = BaseAfter(c)
  /\ scope' = ScopeAfter(c)
  /\ UNCHANGED <<root_init, cerr, status, serial>>
Destroy(c) ==
  /\ Call
  /\ alive[c]
  /\ diags_' = Pop(diags_)
  /\ alive' = [alive EXCEPT ![c] = FALSE]
  /\ suppress_' = [x \in Ctxs |-> IF x \in Kept(c) THEN suppress_[x] ELSE FALSE]
  /\ errs_' = [errs_ EXCEPT ![c] = 0]
  /\ elems' = [x \in Ctxs |-> IF x \in Kept(c) THEN elems[x] ELSE <<>>]
  /\ emitted' = [emitted EXCEPT ![c] = <<>>]
  /\ cleared' = [cleared EXCEPT ![c] = {}]
  /\ replayed' = [replayed EXCEPT ![c] = FALSE]
  /\ outer' = OuterAfter(c)
  /\ dropped' = dropped \cup (Tags(elems[c]) \ Sent)
  /\ order' = Without(order, c)
  /\ base' = BaseAfter(c)
  /\ scope' = ScopeAfter(c)
  /\ UNCHANGED <<root_init, cerr, status, serial>>

\* c.emit(diag) on a living context
Emit(c, k, l, m) ==
  /\ Call
  /\ alive[c]
  /\ CtxEmit(c, Diag(k, l, m))
  /\ UNCHANGED <<diags_, alive, suppress_, root_init, status, cleared,
                 dropped, order, base, scope>>

\* c.reset() on a living context
Reset(c) ==
  /\ Call
  /\ alive[c]
  /\ CtxReset(c)
  /\ UNCHANGED <<diags_, alive, suppress_, root_init, cerr, status, serial,
                 dropped, order, base, scope>>

\* c.emit() on a living context
ReplayStored(c) ==
  /\ Call
  /\ alive[c]
  /\ CtxReplay(c)
  /\ UNCHANGED <<diags_, alive, suppress_, root_init, status, serial, emitted,
                 cleared, outer, dropped, order, base, scope>>

\* ------------------------------------------------------------- facade
\* A call through diags_.top() when that is no pointer to a living context:
\* the process dies, or the call goes on and nothing shows.
Undefined ==
  /\ ~TopValid
  /\ status' \in {"running", "crashed"}
  /\ UNCHANGED <<diags_, alive, suppress_, errs_, elems, root_init, cerr,
                 serial, emitted, cleared, replayed, outer, dropped, order, base, scope>>

\* diags_.top() points to a destroyed context
TopDangling == diags_ # <<>> /\ ~alive[Top]

\* init_diagnostics(): the static root_ is constructed by the first call
init_diagnostics ==
  /\ Call
  /\ IF root_init
     THEN UNCHANGED <<diags_, alive, suppress_, errs_, elems, root_init,
                      emitted, cleared, replayed, outer, order, base, scope>>
     ELSE /\ \E s \in BOOLEAN : CtxConstruct(root_, s)
          /\ root_init' = TRUE
  /\ UNCHANGED <<cerr, status, serial, dropped>>

\* emit_diagnostics()
emit_diagnostics ==
  /\ Call
  /\ \/ /\ TopValid
        /\ CtxReplay(Top)
        /\ UNCHANGED <<diags_, alive, suppress_, root_init, status, serial,
                       emitted, cleared, outer, dropped, order, base, scope>>
     \/ Undefined
     \/ /\ TopDangling      \* emit() reads what the destroyed context left
        /\ cerr' = Replay(suppress_[Top], cerr, elems[Top])
        /\ UNCHANGED <<diags_, alive, suppress_, errs_, elems, root_init,
                       status, serial, emitted, cleared, replayed, outer, dropped,
                       order, base, scope>>

\* reset_diagnostics()
reset_diagnostics ==
  /\ Call
  /\ \/ /\ TopValid
        /\ CtxReset(Top)
        /\ UNCHANGED <<diags_, alive, suppress_, root_init, cerr, status,
                       serial, dropped, order, base, scope>>
     \/ Undefined

\* Diagnostic_context::errors() const
errors(c) == errs_[c]

\* the value error_count() returns
error_count_value == errors(Top)

\* error_count()
error_count ==
  /\ Call
  /\ \/ /\ TopValid
        /\ UNCHANGED <<diags_, alive, suppress_, errs_, elems, root_init,
                       cerr, status, serial, emitted, cleared, replayed, outer, dropped, order,
                       base, scope>>
     \/ Undefined

\* diags_.top()->emit({kind, loc, msg})
Report(k, l, m) ==
  /\ Call
  /\ \/ /\ TopValid
        /\ CtxEmit(Top, Diag(k, l, m))
        /\ UNCHANGED <<diags_, alive, suppress_, root_init, status, cleared,
                       dropped, order, base, scope>>
     \/ Undefined
     \/ /\ TopDangling      \* emit(diag) reads the flag the destroyed context left
        /\ cerr' = Show(suppress_[Top], cerr, Diag(k, l, m))
        /\ serial' = serial + 1
        /\ UNCHANGED <<diags_, alive, suppress_, errs_, elems, root_init,
                       status, emitted, cleared, replayed, outer, dropped, order, base, scope>>

\* error(loc, msg)
error(l, m) == Report(error_diag, l, m)

\* warning(loc, msg)
warning(l, m) == Report(warning_diag, l, m)

\* ------------------------------------------------------------- Next
Next ==
  \/ \E s \in BOOLEAN : Construct(s)
  \/ \E c \in Clients : Destroy(c)
  \/ \E c \in Clients, k \in Kinds, l \in Locs, m \in Msgs : Emit(c, k, l, m)
  \/ \E c \in Clients : Reset(c)
  \/ \E c \in Clients : ReplayStored(c)
  \/ init_diagnostics
  \/ emit_diagnostics
  \/ reset_diagnostics
  \/ error_count
  \/ \E l \in Locs, m \in Msgs : error(l, m)
  \/ \E l \in Locs, m \in Msgs : warning(l, m)

Spec == Init /\ [][Next]_vars

TypeOK ==
  /\ \A i \in 1..Len(diags_) : diags_[i] \in Ctxs
  /\ serial \in 0..MaxCalls
  /\ calls \in 0..MaxCalls
  /\ status \in {"running", "crashed"}

\* ------------------------------------------------------------- token.hpp
\* Token_stream(Token const* f, Token const* l), over a buffer of tokens
TokenInit ==
  /\ DiagInit
  /\ buf \in Buffers
  /\ first_ = Len(buf) - Len(buf)
  /\ last_ = Len(buf)
  /\ tok = DefaultToken
  /\ conv = {}
  /\ deref = <<>>
  /\ tstatus = "running"
  /\ toks_ = {}
  /\ flagged = FALSE

\* A call on tokens can be made: no assertion has stopped the process.
TokenCall ==
  /\ tstatus = "running"
  /\ UNCHANGED diagVars

\* Token t;
Token ==
  /\ TokenCall
  /\ tok' = DefaultToken
  /\ UNCHANGED <<buf, first_, last_, conv, deref, tstatus, toks_, flagged>>

\* Token::operator bool
ToBoolAlways(t) == TRUE
ToBool(t) == t.kind # error_tok

\* if (tok) ...
operator_bool ==
  /\ TokenCall
  /\ conv' = conv \cup {[token |-> tok, result |-> ToBool(tok)]}
  /\ UNCHANGED <<buf, first_, last_, tok, deref, tstatus, toks_, flagged>>

\* Token_stream::eof()
eof_never == first_ > last_
eof == first_ = last_

\* what is read at offset i: a token of the buffer, or what lies around it
At(i) == IF i + 1 \in 1..Len(buf) THEN buf[i + 1] ELSE TokenOf(identifier_tok)

\* a call at the end of the stream: an error token, or an assertion
AtEnd ==
  /\ \/ tok' = DefaultToken /\ tstatus' = "running"
     \/ tok' = tok /\ tstatus' = "failed"
  /\ UNCHANGED <<first_, deref>>

\* Token_stream::peek()
peek ==
  /\ TokenCall
  /\ IF eof THEN AtEnd
     ELSE /\ tok' = At(first_)
          /\ deref' = <<first_>>
          /\ UNCHANGED <<first_, tstatus>>
  /\ UNCHANGED <<buf, last_, conv, toks_, flagged>>

\* the offset peek(n) reads at, if it reads
LookaheadUnclamped(n) == <<first_ + n>>
Lookahead(n) == IF last_ - first_ <= n THEN <<>> ELSE <<first_ + n>>

\* Token_stream::peek(int)
peek_n(n) ==
  /\ TokenCall
  /\ tok' = IF Lookahead(n) = <<>> THEN DefaultToken ELSE At(Lookahead(n)[1])
  /\ deref' = Lookahead(n)
  /\ UNCHANGED <<buf, first_, last_, conv, tstatus, toks_, flagged>>

\* Token_stream::get()
get ==
  /\ TokenCall
  /\ IF eof THEN AtEnd
     ELSE /\ tok' = At(first_)
          /\ deref' = <<first_>>
          /\ first_' = first_ + 1
          /\ UNCHANGED tstatus
  /\ UNCHANGED <<buf, last_, conv, toks_, flagged>>

\* ts shares a kind with an installed token set
Overlaps(ts) == \E x \in toks_ : Owned(x) \cap Owned(ts) # {}

\* install_token_set(Token_set&)
install_unchecked(ts) ==
  /\ TokenCall
  /\ toks_' = toks_ \cup {ts}
  /\ flagged' = (flagged \/ Overlaps(ts))
  /\ UNCHANGED <<buf, first_, last_, tok, conv, deref, tstatus>>
install_token_set(ts) ==
  /\ TokenCall
  /\ IF Overlaps(ts)
     THEN toks_' = toks_ /\ flagged' = TRUE
     ELSE toks_' = toks_ \cup {ts} /\ flagged' = flagged
  /\ UNCHANGED <<buf, first_, last_, tok, conv, deref, tstatus>>

\* uninstall_token_set(Token_set&)
uninstall_token_set(ts) ==
  /\ TokenCall
  /\ ts \in toks_
  /\ toks_' = toks_ \ {ts}
  /\ UNCHANGED <<buf, first_, last_, tok, conv, deref, tstatus, flagged>>

TokenNext ==
  \/ Token
  \/ operator_bool
  \/ peek
  \/ \E n \in 0..MaxLen + 1 : peek_n(n)
  \/ get
  \/ \E ts \in TokenSets : install_token_set(ts)
  \/ \E ts \in TokenSets : uninstall_token_set(ts)

TokenSpec == TokenInit /\ [][TokenNext]_vars

\* ------------------------------------------------------------- steps
\* The step is an emit() on c, called on the object or through the stack.
ReplayOf(c) == ReplayStored(c) \/ (TopValid /\ Top = c /\ emit_diagnostics)

\* The step is a reset() on the living context on top of the stack.
ResetOfTop == TopValid /\ (reset_diagnostics \/ Reset(Top))

\* The step emits a diagnostic into the living context c.
EmitInto(c) == alive[c] /\ Len(emitted'[c]) = Len(emitted[c]) + 1

\* The step is a call of one of the functions that go through diags_.top().
FacadeCall ==
  \/ emit_diagnostics
  \/ reset_diagnostics
  \/ error_count
  \/ \E l \in Locs, m \in Msgs : error(l, m)
  \/ \E l \in Locs, m \in Msgs : warning(l, m)

\* s is a prefix of u
IsPrefix(s, u) == Len(s) <= Len(u) /\ SubSeq(u, 1, Len(s)) = s

\* ------------------------------------------------------------- claims

\* C1: a living context's error counter equals the number of error-kind
\* diagnostics emitted into it since its construction or its last reset(),
\* whether it suppresses or not.
C1_ErrorCount ==
  \A c \in Ctxs : alive[c] => errs_[c] = CountErrors(emitted[c])

C1_Witness ==
  \E c \in Ctxs :
    alive[c] /\ suppress_[c] /\ errs_[c] = 2 /\ Len(emitted[c]) = 3

\* C2: emit() on a suppressed context appends to the reporting boundary the
\* lines of exactly the diagnostics stored in it, which are those emitted into
\* it, in the order they were emitted, and changes no error counter.
C2_ReplayInOrder ==
  [][\A c \in Ctxs :
       (alive[c] /\ suppress_[c] /\ ReplayOf(c)) =>
         /\ elems[c] = emitted[c]
         /\ cerr' = cerr \o Lines(emitted[c])
         /\ errs_' = errs_]_vars

C2_Witness ==
  \E c \in Ctxs :
    /\ alive[c] /\ suppress_[c]
    /\ Len(elems[c]) >= 2 /\ errs_[c] >= 1
    /\ cerr = Lines(elems[c])

\* C3: right after reset() on the context on top of the stack, error_count()
\* returns 0 and emit() on that context adds nothing to the reporting boundary.
C3_ResetThenZero ==
  [][ResetOfTop =>
       /\ error_count_value' = 0
       /\ Replay(suppress_'[Top'], cerr', elems'[Top']) = cerr']_vars

C3_Witness ==
  /\ TopValid /\ suppress_[Top]
  /\ emitted[Top] = <<>>
  /\ \E d \in cleared[Top] : d.kind = error_diag

\* C4: when A is destroyed in order, after a context constructed later than A
\* was destroyed in order and with no destruction out of order since A was
\* constructed, the stack is again what it was just before A was constructed.
C4_NestedRestores ==
  [][\A c \in Clients :
       (Destroy(c) /\ Last(order) = c /\ scope[c] = "nested") =>
         diags_' = base[c]]_vars

C4_Witness ==
  /\ \E c \in Clients : scope[c] = "unwound"
  /\ root_init
  /\ serial >= 1

\* C5: a destructor removes from the stack the entry of the context it
\* destroys, or the destruction is detected and the process stops.
C5_DestroyPopsSelf ==
  [][\A c \in Clients : Destroy(c) => (Top = c \/ status' = "crashed")]_vars

\* C6: error(loc, msg) and warning(loc, msg) emit their diagnostic into the
\* living context the top entry of the stack points to, and leave the stored
\* diagnostics and the error counter of every other context as they were.
C6_ReportsToTop ==
  [][\A k \in {error_diag, warning_diag}, l \in Locs, m \in Msgs :
       Report(k, l, m) =>
         /\ \A c \in Ctxs :
              (diags_ = <<>> \/ c # diags_[Len(diags_)]) =>
                elems'[c] = elems[c] /\ errs_'[c] = errs_[c]
         /\ (diags_ # <<>> /\ alive[diags_[Len(diags_)]]) =>
              LET t == diags_[Len(diags_)] IN
                /\ emitted'[t] = Append(emitted[t], Diag(k, l, m))
                /\ errs_'[t] = errs_[t] + (IF k = error_diag THEN 1 ELSE 0)
                /\ suppress_[t] => elems'[t] = Append(elems[t], Diag(k, l, m))
                /\ ~suppress_[t] => cerr' = Append(cerr, Line(Diag(k, l, m)))]_vars

C6_Witness ==
  /\ Len(diags_) >= 2
  /\ Top = root_ /\ alive[root_]
  /\ emitted[root_] # <<>>
  /\ \E c \in Clients : alive[c] /\ suppress_[c] /\ elems[c] = <<>>

\* C7: once init_diagnostics() was called, the stack holds the root context
\* once, at its base.
C7_RootAtBase ==
  root_init =>
    /\ diags_ # <<>>
    /\ diags_[1] = root_
    /\ Cardinality({i \in 1..Len(diags_) : diags_[i] = root_}) = 1

\* C8: emitting into a suppressed context writes nothing to the reporting
\* boundary, and a stored diagnostic that was not sent when its context was
\* destroyed is never sent afterwards.
C8_DiscardedNeverSent ==
  [][/\ \A c \in Ctxs : (EmitInto(c) /\ suppress_[c]) => cerr' = cerr
     /\ dropped' \cap Tags(cerr') = {}]_vars

\* C9: a diagnostic emitted into a non-suppressed context is appended to the
\* reporting boundary by that call, and no living non-suppressed context ever
\* stores a diagnostic.
C9_ShownNotStored ==
  [][/\ \A c \in Ctxs :
          (EmitInto(c) /\ ~suppress_[c]) =>
            cerr' = Append(cerr, Line(emitted'[c][Len(emitted'[c])]))
     /\ \A c \in Ctxs : (alive'[c] /\ ~suppress_'[c]) => elems'[c] = <<>>]_vars

C9_Witness ==
  \E c \in Ctxs :
    /\ alive[c] /\ ~suppress_[c]
    /\ Len(emitted[c]) >= 2
    /\ cerr = Lines(emitted[c])

\* C10: warning(loc, msg), and emit(diag) of a warning or a note, change the
\* error counter of no context, suppressed or not.
C10_WarningsNotCounted ==
  [][(\/ \E l \in Locs, m \in Msgs : warning(l, m)
      \/ \E c \in Clients, k \in {warning_diag, note_diag}, l \in Locs,
            m \in Msgs : Emit(c, k, l, m)) =>
       errs_' = errs_]_vars

C10_Witness ==
  \E c, x \in Ctxs :
    /\ alive[c] /\ suppress_[c] /\ alive[x] /\ ~suppress_[x]
    /\ errs_[c] = 0 /\ errs_[x] = 0
    /\ {emitted[c][i].kind : i \in 1..Len(emitted[c])} = {warning_diag, note_diag}
    /\ emitted[x] # <<>>

\* C11: a call of error, warning, error_count, emit_diagnostics or
\* reset_diagnostics made while the context stack is empty stops the process.
C11_EmptyStackFatal ==
  [][(diags_ = <<>> /\ FacadeCall) => status' = "crashed"]_vars

\* C12: emit() on a living context that does not suppress adds nothing to the
\* reporting boundary and changes no stored sequence and no error counter,
\* whatever was emitted into the context before.
C12_ReplayShownNoOp ==
  [][\A c \in Ctxs :
       (alive[c] /\ ~suppress_[c] /\ ReplayOf(c)) =>
         /\ cerr' = cerr
         /\ elems' = elems
         /\ errs_' = errs_]_vars

C12_Witness ==
  \E c \in Ctxs :
    /\ alive[c] /\ ~suppress_[c] /\ replayed[c]
    /\ errs_[c] >= 1 /\ Len(emitted[c]) >= 2
    /\ cerr = Lines(emitted[c])

\* C16: a diagnostic emitted into a context changes the error counter of no
\* other context, and when a context is destroyed in order, with no
\* destruction out of order since its construction and the context below it
\* not emitted into or reset by a member call meanwhile, error_count() returns
\* what it returned just before that context was constructed.
C16_CountersNotPropagated ==
  [][/\ \A c \in Ctxs :
          EmitInto(c) => \A x \in Ctxs \ {c} : errs_'[x] = errs_[x]
     /\ \A c \in Clients :
          (/\ Destroy(c) /\ Last(order) = c
           /\ scope[c] \in {"fresh", "nested"} /\ outer[c] # <<>>) =>
            /\ diags_' # <<>> /\ alive'[diags_'[Len(diags_')]]
            /\ error_count_value' = outer[c][1]]_vars

C16_Witness ==
  \E c \in Clients :
    /\ ~alive[c] /\ Len(outer[c]) = 2
    /\ outer[c][1] >= 1 /\ outer[c][2] >= 1
    /\ TopValid /\ errs_[Top] = outer[c][1]

\* C17: the error counter of every living context that suppresses equals the
\* number of error-kind diagnostics in its stored sequence.
C17_CounterMatchesStored ==
  \A c \in Ctxs :
    (alive[c] /\ suppress_[c]) => errs_[c] = CountErrors(elems[c])

C17_Witness ==
  \E c \in Ctxs :
    /\ alive[c] /\ suppress_[c] /\ replayed[c]
    /\ cleared[c] # {}
    /\ errs_[c] = 1 /\ Len(elems[c]) = 2

\* C18: emit() on a living context that suppresses leaves its stored sequence
\* as it was, so that an emit() right after it sends the same lines again, and
\* a step that removes a stored diagnostic of a living context is a reset()
\* on it or its destruction.
C18_ReplayKeepsStored ==
  [][\A c \in Ctxs :
       (alive[c] /\ suppress_[c]) =>
         /\ ReplayOf(c) =>
              /\ elems'[c] = elems[c]
              /\ Replay(suppress_'[c], cerr', elems'[c]) = cerr' \o Lines(elems[c])
         /\ ~IsPrefix(elems[c], elems'[c]) =>
              \/ ~alive'[c]
              \/ Reset(c)
              \/ (Top = c /\ reset_diagnostics)]_vars

C18_Witness ==
  \E c \in Ctxs :
    /\ alive[c] /\ suppress_[c] /\ replayed[c]
    /\ Len(elems[c]) >= 2
    /\ cerr = Lines(elems[c]) \o Lines(elems[c])

\* C13: a Token converts to true exactly when its kind is not the error
\* kind, and a default-constructed Token has the error kind, so it converts
\* to false.
C13_TruthyIffNotError ==
  [][/\ Token => tok'.kind = error_tok /\ ~ToBool(tok')
     /\ \A p \in conv' : p.result <=> p.token.kind \in TokKinds \ {error_tok}]_vars

C13_Witness ==
  /\ [token |-> DefaultToken, result |-> FALSE] \in conv
  /\ [token |-> TokenOf(identifier_tok), result |-> TRUE] \in conv
  /\ [token |-> TokenOf(lparen_tok), result |-> TRUE] \in conv

====
